---- MODULE Spec2Model ----
(***************************************************************************)
(* Model of the polygon cutter PC (src/plugin/polygon_cutter/pc_class.py). *)
(*                                                                         *)
(* Geometry is rectilinear geometry on an integer lattice: a coordinate k  *)
(* of the model is the coordinate k * 0.25 of the working (projected)      *)
(* frame, so a lattice cell has area 0.0625 and every coordinate, length   *)
(* and area is an exact binary fraction.  Lines are axis-aligned polylines *)
(* through lattice points, polygons are given by their rings.  Areas are   *)
(* carried in units of 1e-4 and rounded areas in units of 1e-2.            *)
(* Reprojection changes the crs tag of a collection; the lattice is the    *)
(* image of the data in the frame in which the predicates are evaluated.   *)
(***************************************************************************)
EXTENDS Integers, Sequences, FiniteSets, TLC

\* ---------------------------------------------------------------- bounds
GridMax == 4      \* lattice points are 0..GridMax in both axes
MaxBld == 3       \* at most this many building records
MaxCut == 2       \* at most this many cut records

\* ------------------------------------------------------- generic helpers
Min(a, b) == IF a <= b THEN a ELSE b
Max(a, b) == IF a >= b THEN a ELSE b

SeqToSet(s) == {s[i] : i \in DOMAIN s}

RECURSIVE Flatten(_)
Flatten(ss) == IF ss = <<>> THEN <<>> ELSE Head(ss) \o Flatten(Tail(ss))

RECURSIVE SumSeq(_)
SumSeq(s) == IF s = <<>> THEN 0 ELSE Head(s) + SumSeq(Tail(s))

RECURSIVE FilterSeq(_, _)
\* the rows of s at the positions in keep, in order (a boolean-mask selection)
FilterSeq(s, keep) ==
  IF s = <<>> THEN <<>>
  ELSE LET n == Len(s)
           front == FilterSeq(SubSeq(s, 1, n - 1), keep)
       IN IF n \in keep THEN Append(front, s[n]) ELSE front

RECURSIVE Gcd(_, _)
Gcd(a, b) == IF b = 0 THEN a ELSE Gcd(b, a % b)

\* a row with column name set to val (df[name] = ...)
WithCol(row, name, val) ==
  [c \in DOMAIN row \cup {name} |-> IF c = name THEN val ELSE row[c]]

\* a row without the columns in names (df.drop(columns=names))
DropCols(row, names) == [c \in DOMAIN row \ names |-> row[c]]

\* ------------------------------------------------------ lattice geometry
\* lattice points on the axis-aligned segment p-q (both ends included)
SegPoints(p, q) ==
  IF p[2] = q[2] THEN {<<x, p[2]>> : x \in Min(p[1], q[1]) .. Max(p[1], q[1])}
  ELSE IF p[1] = q[1] THEN {<<p[1], y>> : y \in Min(p[2], q[2]) .. Max(p[2], q[2])}
  ELSE {p, q}

\* unit edges covered by the axis-aligned segment p-q, each as <<low, high>>
SegEdges(p, q) ==
  IF p[2] = q[2]
    THEN {<< <<x, p[2]>>, <<x + 1, p[2]>> >> : x \in Min(p[1], q[1]) .. Max(p[1], q[1]) - 1}
  ELSE IF p[1] = q[1]
    THEN {<< <<p[1], y>>, <<p[1], y + 1>> >> : y \in Min(p[2], q[2]) .. Max(p[2], q[2]) - 1}
  ELSE {}

SegLen(p, q) ==
  (Max(p[1], q[1]) - Min(p[1], q[1])) + (Max(p[2], q[2]) - Min(p[2], q[2]))

CoordsPoints(cs) ==
  IF Len(cs) = 1 THEN {cs[1]}
  ELSE UNION {SegPoints(cs[i], cs[i + 1]) : i \in 1..Len(cs) - 1}

CoordsEdges(cs) == UNION {SegEdges(cs[i], cs[i + 1]) : i \in 1..Len(cs) - 1}

\* cells are named by their lower-left corner; one ring of padding cells
\* around the lattice stands for the unbounded outside
PadCells == (-1..GridMax) \X (-1..GridMax)
IsPad(c) == c[1] = -1 \/ c[1] = GridMax \/ c[2] = -1 \/ c[2] = GridMax
Pads == {c \in PadCells : IsPad(c)}

\* the cells next to c that can be entered from c without crossing an edge of E
Nbrs(c, E) ==
  LET x == c[1]
      y == c[2]
      right == IF << <<x + 1, y>>, <<x + 1, y + 1>> >> \in E THEN {} ELSE {<<x + 1, y>>}
      left  == IF << <<x, y>>, <<x, y + 1>> >> \in E THEN {} ELSE {<<x - 1, y>>}
      up    == IF << <<x, y + 1>>, <<x + 1, y + 1>> >> \in E THEN {} ELSE {<<x, y + 1>>}
      down  == IF << <<x, y>>, <<x + 1, y>> >> \in E THEN {} ELSE {<<x, y - 1>>}
  IN (right \cup left \cup up \cup down) \cap PadCells

RECURSIVE Flood(_, _, _)
Flood(front, seen, E) ==
  IF front = {} THEN seen
  ELSE LET new == (UNION {Nbrs(c, E) : c \in front}) \ seen
       IN Flood(new, seen \cup new, E)

\* the cells of the unbounded face of the planar graph with edge set E
Outside(E) == Flood(Pads, Pads, E)

\* the cells enclosed by a closed ring
RingCells(ring) == PadCells \ Outside(CoordsEdges(ring))

\* an order on cells and on non-empty cell sets (by their least cell)
CellKey(c) == (c[1] + 1) * (GridMax + 2) + (c[2] + 1)
MinKey(F) == CHOOSE k \in {CellKey(c) : c \in F} : \A c \in F : k <= CellKey(c)

RECURSIVE SortFaces(_)
SortFaces(FS) ==
  IF FS = {} THEN <<>>
  ELSE LET f == CHOOSE g \in FS : \A h \in FS : MinKey(g) <= MinKey(h)
       IN <<f>> \o SortFaces(FS \ {f})

RECURSIVE SetToSeq(_)
SetToSeq(S) ==
  IF S = {} THEN <<>>
  ELSE LET x == CHOOSE y \in S : TRUE IN <<x>> \o SetToSeq(S \ {x})

Reverse(s) == [i \in 1..Len(s) |-> s[Len(s) + 1 - i]]

\* ------------------------------------------------------------ geometries
\* shapely geometries, tagged by geom_type
Point(p) == [kind |-> "Point", pt |-> p]
LineString(cs) == [kind |-> "LineString", coords |-> cs]
MultiLineString(ls) == [kind |-> "MultiLineString", lines |-> ls]
Polygon(shell, holes) == [kind |-> "Polygon", shell |-> shell, holes |-> holes]
MultiPolygon(ps) == [kind |-> "MultiPolygon", polys |-> ps]
\* a polygon produced by polygonize: the face made of the cells F
FacePolygon(F) == [kind |-> "Polygon", cells |-> F]
LinearRing(cs) == [kind |-> "LinearRing", coords |-> cs]
GeometryCollection(gs) == [kind |-> "GeometryCollection", geoms |-> gs]
\* a missing geometry (None in a geometry column)
NoGeom == [kind |-> "None"]

LineKinds == {"LineString", "MultiLineString"}
PolygonKinds == {"Polygon", "MultiPolygon"}
PointKinds == {"Point", "MultiPoint"}

\* the cells covered by a polygon
PolyCells(g) ==
  IF "cells" \in DOMAIN g THEN g.cells
  ELSE RingCells(g.shell) \ UNION {RingCells(g.holes[i]) : i \in DOMAIN g.holes}

GeomCells(g) ==
  IF g.kind = "Polygon" THEN PolyCells(g)
  ELSE IF g.kind = "MultiPolygon" THEN UNION {PolyCells(g.polys[i]) : i \in DOMAIN g.polys}
  ELSE {}

CellCorners(c) ==
  {<<c[1], c[2]>>, <<c[1] + 1, c[2]>>, <<c[1], c[2] + 1>>, <<c[1] + 1, c[2] + 1>>}

\* the lattice points of a geometry, as a closed point set
GeomPoints(g) ==
  IF g.kind = "Point" THEN {g.pt}
  ELSE IF g.kind = "MultiPoint" THEN SeqToSet(g.pts)
  ELSE IF g.kind \in {"LineString", "LinearRing"} THEN CoordsPoints(g.coords)
  ELSE IF g.kind = "MultiLineString"
    THEN UNION {CoordsPoints(g.lines[i]) : i \in DOMAIN g.lines}
  ELSE IF g.kind \in PolygonKinds THEN UNION {CellCorners(c) : c \in GeomCells(g)}
  ELSE IF g.kind = "GeometryCollection"
    \* the members of a collection are lines and points
    THEN UNION {IF g.geoms[i].kind = "Point" THEN {g.geoms[i].pt}
                ELSE CoordsPoints(g.geoms[i].coords) : i \in DOMAIN g.geoms}
  ELSE {}

\* the 'intersects' predicate: the closed point sets share a point.  Two closed
\* rectilinear sets with lattice vertices that meet, meet in a lattice point.
Intersects(a, b) == GeomPoints(a) \cap GeomPoints(b) # {}

\* geometry.boundary of a polygon or multi-polygon
PolyRings(g) == <<g.shell>> \o g.holes
Boundary(g) ==
  IF g.kind = "Polygon"
    THEN IF Len(PolyRings(g)) = 1 THEN LineString(g.shell)
         ELSE MultiLineString(PolyRings(g))
  ELSE MultiLineString(Flatten([i \in DOMAIN g.polys |-> PolyRings(g.polys[i])]))

\* the unit edges of a line geometry (its noded linework)
GeomEdges(g) ==
  IF g.kind = "LineString" THEN CoordsEdges(g.coords)
  ELSE IF g.kind = "MultiLineString"
    THEN UNION {CoordsEdges(g.lines[i]) : i \in DOMAIN g.lines}
  ELSE {}

\* the coordinate sequences of a line geometry
GeomLines(g) ==
  IF g.kind = "LineString" THEN <<g.coords>>
  ELSE IF g.kind = "MultiLineString" THEN g.lines
  ELSE <<>>

\* number of vertices of a line geometry
NumVertices(g) == SumSeq([i \in DOMAIN GeomLines(g) |-> Len(GeomLines(g)[i])])

\* geometry.area, in units of 1e-4: a cell is 0.25 x 0.25 = 0.0625
Area(g) == Cardinality(GeomCells(g)) * 625

\* round(x, 2): x and the result in units of 1e-4, the result a multiple of
\* 1e-2, halves to even
Round2(a) ==
  LET q == a \div 100
      r == a % 100
  IN 100 * (IF r > 50 THEN q + 1
            ELSE IF r < 50 THEN q
            ELSE IF q % 2 = 0 THEN q ELSE q + 1)

\* geometry.centroid as an exact fraction <<nx, ny, d>> in lowest terms
\* (the point (nx/d, ny/d)); equal centroids have equal wkb
Reduce(nx, ny, d) ==
  LET g == Gcd(Gcd(nx, ny), d) IN <<nx \div g, ny \div g, d \div g>>

LineCentroid(lines) ==
  LET segs == Flatten([i \in DOMAIN lines |->
                 [k \in 1..Len(lines[i]) - 1 |-> <<lines[i][k], lines[i][k + 1]>>]])
      len(s) == SegLen(s[1], s[2])
      total == SumSeq([k \in DOMAIN segs |-> len(segs[k])])
  IN IF total = 0 THEN Reduce(lines[1][1][1], lines[1][1][2], 1)
     ELSE Reduce(SumSeq([k \in DOMAIN segs |-> len(segs[k]) * (segs[k][1][1] + segs[k][2][1])]),
                 SumSeq([k \in DOMAIN segs |-> len(segs[k]) * (segs[k][1][2] + segs[k][2][2])]),
                 2 * total)

Centroid(g) ==
  IF g.kind = "Point" THEN Reduce(g.pt[1], g.pt[2], 1)
  ELSE IF g.kind \in LineKinds THEN LineCentroid(GeomLines(g))
  ELSE IF g.kind = "LinearRing" THEN LineCentroid(<<g.coords>>)
  ELSE IF g.kind = "GeometryCollection"
    \* the centroid of a collection is that of its members of highest dimension
    THEN LET ls == FilterSeq(g.geoms, {i \in DOMAIN g.geoms : g.geoms[i].kind = "LineString"})
         IN IF ls # <<>> THEN LineCentroid([i \in DOMAIN ls |-> ls[i].coords])
            ELSE Reduce(g.geoms[1].pt[1], g.geoms[1].pt[2], 1)
  ELSE IF g.kind \in PolygonKinds
    THEN LET cs == SetToSeq(GeomCells(g))
         IN Reduce(SumSeq([k \in DOMAIN cs |-> 2 * cs[k][1] + 1]),
                   SumSeq([k \in DOMAIN cs |-> 2 * cs[k][2] + 1]),
                   2 * Len(cs))
  ELSE <<0, 0, 0>>

\* mutant: a multi-line is not taken apart
PartsKeepMultiLine(g) ==
  IF g.kind = "MultiPolygon" THEN g.polys
  ELSE IF g.kind = "MultiPoint" THEN [i \in DOMAIN g.pts |-> Point(g.pts[i])]
  ELSE IF g.kind = "GeometryCollection" THEN g.geoms
  ELSE <<g>>

\* the parts of a geometry, as GeoDataFrame.explode separates them
Parts(g) ==
  IF g.kind = "MultiPolygon" THEN g.polys
  ELSE IF g.kind = "MultiLineString" THEN [i \in DOMAIN g.lines |-> LineString(g.lines[i])]
  ELSE IF g.kind = "MultiPoint" THEN [i \in DOMAIN g.pts |-> Point(g.pts[i])]
  ELSE IF g.kind = "GeometryCollection" THEN g.geoms
  ELSE <<g>>

\* mutant: the rows come part by part (all first parts, then all second ones)
ExplodeRowsByPart(frame) ==
  LET most == Max(1, SumSeq([i \in DOMAIN frame |-> Len(Parts(frame[i].geometry))]))
  IN Flatten([k \in 1..most |->
       Flatten([i \in DOMAIN frame |->
          IF k \in DOMAIN Parts(frame[i].geometry)
            THEN <<WithCol(frame[i], "geometry", Parts(frame[i].geometry)[k])>>
          ELSE <<>>])])

\* GeoDataFrame.explode(): one row per part, the other columns repeated
ExplodeRows(frame) ==
  Flatten([i \in DOMAIN frame |->
     [k \in DOMAIN Parts(frame[i].geometry) |->
        WithCol(frame[i], "geometry", Parts(frame[i].geometry)[k])]])

\* explode(index_parts=True): the exploded rows get the pair (label, number
\* of the row among the rows of its label) as their index
IndexParts(exploded) ==
  [n \in DOMAIN exploded |->
     WithCol(exploded[n], "idx",
             <<exploded[n].idx,
               Cardinality({m \in 1..n - 1 : exploded[m].idx = exploded[n].idx})>>)]

\* shapely.ops.linemerge on a list of coordinate sequences: two lines are
\* joined where exactly two line ends meet
IsClosed(l) == l[1] = l[Len(l)]
EndDegree(p, ls) ==
  Cardinality({<<i, e>> \in (DOMAIN ls) \X {1, 2} :
                 (IF e = 1 THEN ls[i][1] ELSE ls[i][Len(ls[i])]) = p})
Mergeable(ls, i, j) ==
  /\ i < j /\ ~IsClosed(ls[i]) /\ ~IsClosed(ls[j])
  /\ \E p \in {ls[i][1], ls[i][Len(ls[i])]} \cap {ls[j][1], ls[j][Len(ls[j])]} :
        EndDegree(p, ls) = 2
Joined(a, b) ==
  IF a[Len(a)] = b[1] /\ a[1] # b[Len(b)] THEN a \o Tail(b)
  ELSE IF a[Len(a)] = b[Len(b)] /\ a[1] # b[1] THEN a \o Tail(Reverse(b))
  ELSE IF a[1] = b[Len(b)] THEN b \o Tail(a)
  ELSE IF a[1] = b[1] THEN Reverse(b) \o Tail(a)
  ELSE a \o Tail(b)

RECURSIVE MergeLines(_)
MergeLines(ls) ==
  LET pairs == {<<i, j>> \in (DOMAIN ls) \X (DOMAIN ls) : Mergeable(ls, i, j)}
  IN IF pairs = {} THEN ls
     ELSE LET pr == CHOOSE q \in pairs :
                      \A r \in pairs : q[1] < r[1] \/ (q[1] = r[1] /\ q[2] <= r[2])
              i == pr[1]
              j == pr[2]
              merged == [k \in DOMAIN ls |-> IF k = i THEN Joined(ls[i], ls[j]) ELSE ls[k]]
          IN MergeLines(FilterSeq(merged, (DOMAIN ls) \ {j}))

LineMerge(lines) ==
  LET ls == MergeLines(lines)
  IN IF Len(ls) = 1 THEN LineString(ls[1]) ELSE MultiLineString(ls)

\* shapely.ops.polygonize on noded linework E: the bounded faces of the graph
Faces(E) ==
  LET inner == PadCells \ Outside(E)
  IN {Flood({c}, {c}, E) : c \in inner}

\* mutant: every face is built from its outer ring alone, holes are not assigned
RECURSIVE FloodAround(_, _, _)
FloodAround(front, seen, F) ==
  IF front = {} THEN seen
  ELSE LET new == (UNION {{<<c[1] + 1, c[2]>>, <<c[1] - 1, c[2]>>, <<c[1], c[2] + 1>>,
                           <<c[1], c[2] - 1>>} \cap PadCells : c \in front}) \ (seen \cup F)
       IN FloodAround(new, seen \cup new, F)

FilledFace(F) == PadCells \ FloodAround(Pads, Pads, F)

PolygonizeFilled(E) ==
  LET fs == SortFaces(Faces(E)) IN [i \in DOMAIN fs |-> FacePolygon(FilledFace(fs[i]))]

Polygonize(E) ==
  LET fs == SortFaces(Faces(E)) IN [i \in DOMAIN fs |-> FacePolygon(fs[i])]

\* the ring around a face without holes: the boundary edges of its cells,
\* directed with the face on the left, walked from the lowest-left corner,
\* the vertices inside a straight run left out
DirEdges(F) ==
  UNION {{e \in {<<<<c[1], c[2]>>, <<c[1] + 1, c[2]>>, <<c[1], c[2] - 1>>>>,
                  <<<<c[1] + 1, c[2]>>, <<c[1] + 1, c[2] + 1>>, <<c[1] + 1, c[2]>>>>,
                  <<<<c[1] + 1, c[2] + 1>>, <<c[1], c[2] + 1>>, <<c[1], c[2] + 1>>>>,
                  <<<<c[1], c[2] + 1>>, <<c[1], c[2]>>, <<c[1] - 1, c[2]>>>>} :
             e[3] \notin F} : c \in F}

RECURSIVE Walk(_, _, _, _)
Walk(D, start, v, acc) ==
  LET w == (CHOOSE e \in D : e[1] = v)[2]
  IN IF w = start THEN Append(acc, start) ELSE Walk(D, start, w, Append(acc, w))

Collinear(a, b, c) == (a[1] = b[1] /\ b[1] = c[1]) \/ (a[2] = b[2] /\ b[2] = c[2])

TraceRing(F) ==
  LET D == DirEdges(F)
      V == {e[1] : e \in D}
      start == CHOOSE v \in V : \A u \in V : CellKey(v) <= CellKey(u)
      ring == Walk(D, start, start, <<start>>)
  IN FilterSeq(ring, {i \in DOMAIN ring :
        i = 1 \/ i = Len(ring) \/ ~Collinear(ring[i - 1], ring[i], ring[i + 1])})

\* geometry.is_valid and shapely.validation.make_valid: a polygon whose shell
\* visits a vertex twice is invalid and is rebuilt from the faces it encloses
IsValid(g) ==
  IF g.kind = "Polygon" /\ "shell" \in DOMAIN g
    THEN Cardinality(SeqToSet(g.shell)) = Len(g.shell) - 1
  ELSE IF g.kind = "MultiPolygon"
    THEN \A i \in DOMAIN g.polys :
           "shell" \in DOMAIN g.polys[i]
             => Cardinality(SeqToSet(g.polys[i].shell)) = Len(g.polys[i].shell) - 1
  ELSE TRUE

MakeValid(g) ==
  IF g.kind = "Polygon" /\ "shell" \in DOMAIN g
    THEN LET E == GeomEdges(Boundary(g))
             fs == SortFaces({F \in Faces(E) : F \subseteq PolyCells(g)})
         IN IF Len(fs) = 1 THEN Polygon(TraceRing(fs[1]), <<>>)
            ELSE MultiPolygon([i \in DOMAIN fs |-> Polygon(TraceRing(fs[i]), <<>>)])
  ELSE g

\* ------------------------------------------- the nested functions of PC
\* mutant: the geometry column is returned as it came
ValidateGeometryNoRepair(frame) == [i \in DOMAIN frame |-> frame[i].geometry]

\* ValidateGeometry on a GeoDataFrame: the geometry column, repaired
ValidateGeometry(frame) ==
  [i \in DOMAIN frame |->
     IF ~IsValid(frame[i].geometry) THEN MakeValid(frame[i].geometry)
     ELSE frame[i].geometry]

\* list(map(LineString, zip(coords[:-1], coords[1:])))
CoordPairs(cs) == [i \in 1..Len(cs) - 1 |-> LineString(<<cs[i], cs[i + 1]>>)]

MultiLineDevolver(lines) == Flatten([i \in DOMAIN lines |-> CoordPairs(lines[i])])

\* ToSingleLines: the list of two-vertex lines of a geometry, None for a
\* point, and a process exit for any other kind
ToSingleLines(geom) ==
  IF geom.kind \notin (PolygonKinds \cup LineKinds \cup PointKinds)
    THEN [tag |-> "exit"]
  ELSE IF geom.kind \in LineKinds
    THEN IF geom.kind = "MultiLineString"
           THEN [tag |-> "lines", lines |-> MultiLineDevolver(geom.lines)]
         ELSE [tag |-> "lines", lines |-> CoordPairs(geom.coords)]
  ELSE IF geom.kind \in PolygonKinds
    THEN LET bounds == Boundary(geom)
         IN IF bounds.kind = "MultiLineString"
              THEN [tag |-> "lines", lines |-> MultiLineDevolver(bounds.lines)]
            ELSE [tag |-> "lines", lines |-> CoordPairs(bounds.coords)]
  ELSE [tag |-> "None"]

\* SwapGeometry: column swap becomes the geometry column, orig is dropped
SwapGeometry(rows, orig, swap) ==
  [i \in DOMAIN rows |->
     WithCol(DropCols(rows[i], {orig, swap}), "geometry", rows[i][swap])]

\* mutant: the join predicate is 'within' (the left geometry lies in the right)
SJoinWithin(left, right) ==
  {<<i, j>> \in (DOMAIN left) \X (DOMAIN right) :
      /\ GeomPoints(left[i].geometry) # {}
      /\ GeomPoints(left[i].geometry) \subseteq GeomPoints(right[j].geometry)}

\* gpd.sjoin(left, right): the pairs of positions whose geometries intersect
SJoin(left, right) ==
  {<<i, j>> \in (DOMAIN left) \X (DOMAIN right) :
      Intersects(left[i].geometry, right[j].geometry)}

\* the rows of frame whose column col has a value in vals (df[df[col].isin(vals)])
IsIn(frame, col, vals) ==
  FilterSeq(frame, {i \in DOMAIN frame : frame[i][col] \in vals})

\* mutant: numbering from 0 (range(len(df.index)))
NumberRowsFromZero(frame, col) == [i \in DOMAIN frame |-> WithCol(frame[i], col, i - 1)]

\* df[col] = range(1, len(df.index) + 1)
NumberRows(frame, col) == [i \in DOMAIN frame |-> WithCol(frame[i], col, i)]

\* the rows labelled 0 in the pandas index (input_gdf.geometry[0])
Labelled0(frame) == {i \in DOMAIN frame : frame[i].idx = 0}

\* check_geom on a frame that has a row labelled 0: lines pass through as they
\* are, polygons are exploded and cut into two-vertex lines
CheckGeomKind(frame) == frame[CHOOSE i \in Labelled0(frame) : TRUE].geometry.kind

CheckGeomLines(frame) ==
  LET exploded == ExplodeRows(frame)
      single(i) == ToSingleLines(exploded[i].geometry)
      withList == Flatten([i \in DOMAIN exploded |->
                    IF single(i).tag = "lines"
                      THEN [k \in DOMAIN single(i).lines |->
                              WithCol(exploded[i], "single_lines", single(i).lines[k])]
                    ELSE <<WithCol(exploded[i], "single_lines", NoGeom)>>])
  IN SwapGeometry(withList, "geometry", "single_lines")

check_geom(frame) ==
  IF CheckGeomKind(frame) \in LineKinds THEN frame ELSE CheckGeomLines(frame)

\* how check_geom ends on a frame that has a row labelled 0: it returns a
\* frame, returns None (no branch taken), raises IOError (points), or the
\* process exits inside ToSingleLines
CheckGeomOutcome(frame) ==
  LET kind == CheckGeomKind(frame)
      exploded == ExplodeRows(frame)
  IN IF kind \in LineKinds THEN "frame"
     ELSE IF kind \in PolygonKinds
       THEN IF \E i \in DOMAIN exploded : ToSingleLines(exploded[i].geometry).tag = "exit"
              THEN "SystemExit"
            ELSE "frame"
     ELSE IF kind \in PointKinds THEN "IOError"
     ELSE "None"

\* mutant: only the first duplicated row found is dropped
DropDuplicatesOnce(rows, col) ==
  LET dups == {i \in DOMAIN rows : \E j \in 1..i - 1 : rows[j][col] = rows[i][col]}
  IN IF dups = {} THEN rows
     ELSE FilterSeq(rows, (DOMAIN rows) \ {CHOOSE i \in dups : \A k \in dups : i <= k})

\* mutant: the last row of every value is kept (keep='last')
DropDuplicatesKeepLast(rows, col) ==
  FilterSeq(rows, {i \in DOMAIN rows :
                     \A j \in i + 1..Len(rows) : rows[j][col] # rows[i][col]})

\* drop_duplicates([col]): the first row of every value of col is kept
DropDuplicates(rows, col) ==
  FilterSeq(rows, {i \in DOMAIN rows : \A j \in 1..i - 1 : rows[j][col] # rows[i][col]})

\* mutant: duplicates are found by the geometry itself, not by its centroid
DedupByGeometry(rows) == DropDuplicates(rows, "geometry")

\* lines 254-264: duplicate removal by centroid
Dedup(rows) ==
  LET withC == [i \in DOMAIN rows |-> WithCol(rows[i], "centroid", Centroid(rows[i].geometry))]
      kept == DropDuplicates(withC, "centroid")
  IN [i \in DOMAIN kept |-> DropCols(kept[i], {"centroid"})]

\* FindIntersects: every row of input_geom gets the tuple of the search ids
\* joined to it, in join order
RECURSIVE JoinedIds(_, _, _)
JoinedIds(joined, search, n) ==
  IF n = 0 THEN <<>>
  ELSE LET front == JoinedIds(joined, search, n - 1)
       IN IF n \in joined THEN Append(front, search[n]) ELSE front

\* mutant: the join result is not restricted to the rows of the building
FindIntersectsUnfiltered(input_geom, search_geometry, input_link_field, search_link_field) ==
  LET joined_geom == SJoin(input_geom, search_geometry)
      ids == [j \in DOMAIN search_geometry |-> search_geometry[j][search_link_field]]
      all == JoinedIds({pr[2] : pr \in joined_geom}, ids, Len(search_geometry))
  IN [i \in DOMAIN input_geom |-> WithCol(input_geom[i], "line_ints", all)]

FindIntersects(input_geom, search_geometry, input_link_field, search_link_field) ==
  LET joined_geom == SJoin(input_geom, search_geometry)
      ids == [j \in DOMAIN search_geometry |-> search_geometry[j][search_link_field]]
      line_ints(x) ==
        Flatten([i \in DOMAIN input_geom |->
          IF input_geom[i][input_link_field] = x
            THEN JoinedIds({j \in DOMAIN search_geometry : <<i, j>> \in joined_geom},
                           ids, Len(search_geometry))
          ELSE <<>>])
  IN [i \in DOMAIN input_geom |->
        WithCol(input_geom[i], "line_ints", line_ints(input_geom[i][input_link_field]))]

\* mutant: the early return for an unlinked polygon is missing
CutPolygonNoIdentity(intersect_indexes, in_geom, lg, cut_field) ==
  LET cutters == IsIn(lg, cut_field, SeqToSet(intersect_indexes))
      merged == LineMerge(Flatten([i \in DOMAIN cutters |-> GeomLines(cutters[i].geometry)]))
      noded == GeomEdges(merged) \cup GeomEdges(Boundary(in_geom))
  IN MultiPolygon(Polygonize(noded))

\* mutant: every segment of the catalog cuts, linked or not (line 182 lost)
CutPolygonAllLines(intersect_indexes, in_geom, lg, cut_field) ==
  IF Len(intersect_indexes) = 0 THEN in_geom
  ELSE LET merged == LineMerge(Flatten([i \in DOMAIN lg |-> GeomLines(lg[i].geometry)]))
           noded == GeomEdges(merged) \cup GeomEdges(Boundary(in_geom))
       IN MultiPolygon(Polygonize(noded))

\* mutant: the polygon's boundary is not added to the cutters (line 188 lost)
CutPolygonNoBoundary(intersect_indexes, in_geom, lg, cut_field) ==
  IF Len(intersect_indexes) = 0 THEN in_geom
  ELSE LET cutters == IsIn(lg, cut_field, SeqToSet(intersect_indexes))
           merged == LineMerge(Flatten([i \in DOMAIN cutters |->
                                           GeomLines(cutters[i].geometry)]))
       IN MultiPolygon(Polygonize(GeomEdges(merged)))

\* CutPolygon: the geometry itself when nothing is linked, otherwise the faces
\* of the planar graph of the merged cutters and the polygon's boundary
CutPolygon(intersect_indexes, in_geom, lg, cut_field) ==
  IF Len(intersect_indexes) = 0 THEN in_geom
  ELSE LET cutters == IsIn(lg, cut_field, SeqToSet(intersect_indexes))
           merged == LineMerge(Flatten([i \in DOMAIN cutters |->
                                           GeomLines(cutters[i].geometry)]))
           \* unary_union nodes the linework; the second linemerge keeps it
           noded == GeomEdges(merged) \cup GeomEdges(Boundary(in_geom))
       IN MultiPolygon(Polygonize(noded))

\* ---------------------------------------------------------------- inputs
Rect(x1, y1, x2, y2) == <<<<x1, y1>>, <<x2, y1>>, <<x2, y2>>, <<x1, y2>>, <<x1, y1>>>>

\* building footprints: a square, a square with a courtyard, a small shed
BldSquare == Polygon(Rect(1, 1, 3, 3), <<>>)
BldCourt == Polygon(Rect(0, 0, 3, 3), <<Rect(1, 1, 2, 2)>>)
BldShed == Polygon(Rect(3, 3, 4, 4), <<>>)
BuildingCatalog == <<BldSquare, BldCourt, BldShed>>

\* cut geometry: two parcels that share the edge x = 2, a straight line through
\* the middle, a three-sided line, and two multi-lines (one that merges into a
\* single line, one that does not)
CutLeft == Polygon(Rect(0, 0, 2, 4), <<>>)
CutRight == Polygon(Rect(2, 0, 4, 4), <<>>)
CutLine == LineString(<<<<0, 2>>, <<4, 2>>>>)
CutU == LineString(<<<<1, 1>>, <<0, 1>>, <<0, 3>>, <<1, 3>>>>)
CutMultiJoin == MultiLineString(<< <<<<0, 1>>, <<2, 1>>>>, <<<<2, 1>>, <<4, 1>>>> >>)
CutMultiApart == MultiLineString(<< <<<<0, 1>>, <<4, 1>>>>, <<<<0, 3>>, <<4, 3>>>> >>)
CutCatalog == {CutLeft, CutRight, CutLine, CutU, CutMultiJoin, CutMultiApart}

\* a frame read from a file: one row per geometry, labelled 0, 1, ...
Frame(geoms) == [i \in DOMAIN geoms |-> [idx |-> i - 1, geometry |-> geoms[i]]]

\* building collections: up to MaxBld different footprints, in catalog order
BuildingInputs ==
  {Frame(FilterSeq(BuildingCatalog, S)) :
     S \in {T \in SUBSET (DOMAIN BuildingCatalog) : Cardinality(T) \in 1..MaxBld}}

\* cut geometry that is not a valid polygon or line: a point, a collection of
\* a line and a point, a ring, and a polygon whose shell touches itself
CutPoint == Point(<<2, 2>>)
CutCollection ==
  GeometryCollection(<<LineString(<<<<0, 2>>, <<4, 2>>>>), Point(<<2, 2>>)>>)
CutRing == LinearRing(Rect(1, 1, 3, 3))
CutBowtie ==
  Polygon(<<<<0, 0>>, <<2, 0>>, <<2, 2>>, <<4, 2>>, <<4, 4>>, <<2, 4>>, <<2, 2>>,
            <<0, 2>>, <<0, 0>>>>, <<>>)
IrregularCatalog == {CutPoint, CutCollection, CutRing, CutBowtie}

\* collections with one irregular record, at any position among polygons and lines
IrregularCuts ==
  {[f EXCEPT ![k] = g] : g \in IrregularCatalog,
     <<f, k>> \in UNION {[1..n -> {CutLeft, CutLine}] \X (1..n) : n \in 1..MaxCut}}

\* cut collections: up to MaxCut cut geometries, in any order, repeats allowed,
\* and the collections with an irregular record
CutInputs ==
  {Frame(gs) : gs \in UNION {[1..n -> CutCatalog] : n \in 0..MaxCut} \cup IrregularCuts}

\* the optional point collection: absent, or a single address point
NoPoints == [given |-> FALSE]
PointInputs == {NoPoints, [given |-> TRUE, rows |-> Frame(<<Point(<<2, 2>>)>>)]}

\* sliver_max_area, in units of 1e-4: 0, 0.12, 0.123 (between the rounded and
\* the true area of half a 0.5 x 0.5 square) and 0.25
SliverMaxAreas == {0, 1200, 1230, 2500}

\* ----------------------------------------------------------------- state
VARIABLES
  pc,               \* the stage of PC.__init__ that runs next
  err,              \* the exception that ended the run, "" if none
  bp,               \* self.bp
  cut_geom,         \* the cut collection (the parameter cut_geom)
  point_data,       \* the parameter point_data
  line_geom,        \* self.line_geom
  cut_res,          \* the result of the cutting apply (the local cut_geom of line 298)
  slivers,          \* self.slivers
  sliver_max_area,  \* the parameter sliver_max_area
  crs_of,           \* the crs of each collection
  caller            \* the caller's objects bld_poly, cut_geom and point_data

vars == <<pc, err, bp, cut_geom, point_data, line_geom, cut_res, slivers,
          sliver_max_area, crs_of, caller>>

\* a collection as the caller holds it: its rows and its crs
Held(rows, tag) == [rows |-> rows, crs |-> tag]

\* the parameters crs and proj_crs
crs == "geographic"
proj_crs == "projected"

\* the crs the collections arrive in: all in crs, or buildings and points in
\* the projected crs and the cut geometry in crs
InputCrs ==
  {[bp |-> crs, cut |-> crs, points |-> crs],
   [bp |-> proj_crs, cut |-> crs, points |-> proj_crs]}

Init ==
  /\ pc = "ingest"
  /\ err = ""
  /\ bp \in BuildingInputs
  /\ cut_geom \in CutInputs
  /\ point_data \in PointInputs
  /\ line_geom = <<>>
  /\ cut_res = <<>>
  /\ slivers = <<>>
  /\ sliver_max_area \in SliverMaxAreas
  /\ \E c \in InputCrs :
       crs_of = [bp |-> c.bp, cut |-> c.cut,
                 points |-> IF point_data.given THEN c.points ELSE "unset",
                 line |-> "unset"]
  /\ caller = [bld_poly |-> Held(bp, crs_of.bp),
               cut_geom |-> Held(cut_geom, crs_of.cut),
               point_data |-> IF point_data.given
                                THEN [given |-> TRUE, rows |-> point_data.rows,
                                      crs |-> crs_of.points]
                              ELSE NoPoints]

\* mutant: only a frame without a crs is touched (the elif branch is lost)
reprojectUnsetOnly(tag, output_crs) == IF tag = "unset" THEN output_crs ELSE tag

\* set_crs(crs=c) on a frame without a crs, or already in c
set_crs(tag, c) == IF tag = "unset" THEN c ELSE tag

\* the crs of the frame check_geom returns: that of its input when the lines
\* pass through, none after SwapGeometry set a plain column as the geometry
check_geom_crs(frame, tag) == IF CheckGeomKind(frame) \in LineKinds THEN tag ELSE "unset"

\* reproject: a frame without a crs is given output_crs, any other is transformed
reproject(tag, output_crs) ==
  IF tag = "unset" THEN output_crs      \* set_crs
  ELSE IF tag # output_crs THEN output_crs   \* to_crs
  ELSE tag

\* lines 199-213: aliasing of the inputs, crs, validation, link identifiers
Ingest ==
  /\ pc = "ingest"
  /\ bp' = NumberRows([i \in DOMAIN bp |->
                          WithCol(bp[i], "geometry", ValidateGeometry(bp)[i])], "bp_index")
  /\ cut_geom' = NumberRows([i \in DOMAIN cut_geom |->
                          WithCol(cut_geom[i], "geometry", ValidateGeometry(cut_geom)[i])],
                          "cut_index")
  /\ crs_of' = [crs_of EXCEPT !.bp = crs, !.cut = crs]
  \* self.bp and cut_geom are the caller's objects, changed in place
  /\ caller' = [caller EXCEPT !.bld_poly = Held(bp', crs),
                              !.cut_geom = Held(cut_geom', crs)]
  /\ pc' = "filter"
  /\ UNCHANGED <<err, point_data, line_geom, cut_res, slivers, sliver_max_area>>

\* lines 215-227: cut geometry that meets no building (and, with points, no
\* point) is dropped
FilterCuts ==
  /\ pc = "filter"
  /\ LET cut_joined == {cut_geom[pr[1]].cut_index : pr \in SJoin(cut_geom, bp)}
         by_bld == IsIn(cut_geom, "cut_index", cut_joined)
     IN IF point_data.given
          THEN LET pts == NumberRows(point_data.rows, "ap_index")
                   cut_joined_ap == {by_bld[pr[1]].cut_index : pr \in SJoin(by_bld, pts)}
               IN /\ point_data' = [point_data EXCEPT !.rows = pts]
                  /\ crs_of' = [crs_of EXCEPT !.points = crs]
                  \* point_data is the caller's object, changed in place
                  /\ caller' = [caller EXCEPT !.point_data =
                                  [given |-> TRUE, rows |-> pts, crs |-> crs]]
                  /\ cut_geom' = IsIn(by_bld, "cut_index", cut_joined_ap)
        ELSE /\ cut_geom' = by_bld
             /\ UNCHANGED <<point_data, crs_of, caller>>
  /\ pc' = "check_geom"
  /\ UNCHANGED <<err, bp, line_geom, cut_res, slivers, sliver_max_area>>

\* line 232 when no row of the filtered cut collection is labelled 0: the
\* lookup input_gdf.geometry[0] raises KeyError and the constructor ends
CheckGeomKeyError ==
  /\ pc = "check_geom"
  /\ Labelled0(cut_geom) = {}
  /\ pc' = "raised"
  /\ err' = "KeyError"
  /\ UNCHANGED <<bp, cut_geom, point_data, line_geom, cut_res, slivers,
                 sliver_max_area, crs_of, caller>>

\* line 232 when the record labelled 0 is a point: check_geom raises IOError
\* (lines 155-157) and the constructor ends
CheckGeomIOError ==
  /\ pc = "check_geom"
  /\ Labelled0(cut_geom) # {}
  /\ CheckGeomOutcome(cut_geom) = "IOError"
  /\ pc' = "raised"
  /\ err' = "IOError"
  /\ UNCHANGED <<bp, cut_geom, point_data, line_geom, cut_res, slivers,
                 sliver_max_area, crs_of, caller>>

\* line 232 when the record labelled 0 is a polygon and some exploded record
\* is of a kind ToSingleLines does not know: sys.exit() (lines 75-80) ends
\* the process
CheckGeomExit ==
  /\ pc = "check_geom"
  /\ Labelled0(cut_geom) # {}
  /\ CheckGeomOutcome(cut_geom) = "SystemExit"
  /\ pc' = "exited"
  /\ err' = "SystemExit"
  /\ UNCHANGED <<bp, cut_geom, point_data, line_geom, cut_res, slivers,
                 sliver_max_area, crs_of, caller>>

\* lines 232-237 when the record labelled 0 is of no kind check_geom tests
\* for: check_geom returns None and None.set_crs raises AttributeError
CheckGeomNone ==
  /\ pc = "check_geom"
  /\ Labelled0(cut_geom) # {}
  /\ CheckGeomOutcome(cut_geom) = "None"
  /\ pc' = "raised"
  /\ err' = "AttributeError"
  /\ UNCHANGED <<bp, cut_geom, point_data, line_geom, cut_res, slivers,
                 sliver_max_area, crs_of, caller>>

\* lines 232-239: the line network, given a crs and numbered
CheckGeom ==
  /\ pc = "check_geom"
  /\ Labelled0(cut_geom) # {}
  /\ CheckGeomOutcome(cut_geom) = "frame"
  /\ line_geom' = NumberRows(check_geom(cut_geom), "line_index")
  \* check_geom returns its argument when the record labelled 0 is a line
  \* (line 139): the local cut_geom and self.line_geom are then one object
  \* and lines 237 and 239 act on both
  /\ cut_geom' = IF CheckGeomKind(cut_geom) \in LineKinds THEN line_geom' ELSE cut_geom
  /\ crs_of' = LET tag == set_crs(check_geom_crs(cut_geom, crs_of.cut), crs)
               IN [crs_of EXCEPT !.line = tag,
                                 !.cut = IF CheckGeomKind(cut_geom) \in LineKinds
                                           THEN tag ELSE @]
  /\ pc' = "drop_lines"
  /\ UNCHANGED <<err, bp, point_data, cut_res, slivers, sliver_max_area, caller>>

\* lines 243-244: lines that meet no building are dropped
DropLines ==
  /\ pc = "drop_lines"
  /\ LET lines_joined == {line_geom[pr[1]].line_index : pr \in SJoin(line_geom, bp)}
     IN line_geom' = IsIn(line_geom, "line_index", lines_joined)
  /\ pc' = "project"
  /\ UNCHANGED <<err, bp, cut_geom, point_data, cut_res, slivers, sliver_max_area, crs_of, caller>>

\* lines 247-251: both collections go to the projected crs, the index is reset
Project ==
  /\ pc = "project"
  /\ crs_of' = [crs_of EXCEPT !.line = reproject(crs_of.line, proj_crs),
                              !.bp = reproject(crs_of.bp, proj_crs)]
  /\ line_geom' = [i \in DOMAIN line_geom |-> WithCol(line_geom[i], "idx", i - 1)]
  \* reproject works in place, on the object self.bp names
  /\ caller' = [caller EXCEPT !.bld_poly = Held(bp, reproject(crs_of.bp, proj_crs))]
  /\ pc' = "dedup"
  /\ UNCHANGED <<err, bp, cut_geom, point_data, cut_res, slivers, sliver_max_area>>

\* lines 253-264: duplicate removal
DedupStep ==
  /\ pc = "dedup"
  /\ line_geom' = Dedup(line_geom)
  /\ pc' = "exclude"
  /\ UNCHANGED <<err, bp, cut_geom, point_data, cut_res, slivers, sliver_max_area, crs_of, caller>>

\* lines 266-270: anything that is not a line is excluded
ExcludeNonLines ==
  /\ pc = "exclude"
  /\ line_geom' = FilterSeq(line_geom,
                    {i \in DOMAIN line_geom : line_geom[i].geometry.kind \in LineKinds})
  /\ pc' = "merge"
  /\ UNCHANGED <<err, bp, cut_geom, point_data, cut_res, slivers, sliver_max_area, crs_of, caller>>

\* lines 272-275: a multi-line is replaced by its line-merge
MergeMulti ==
  /\ pc = "merge"
  /\ LET singled == [i \in DOMAIN line_geom |->
                       WithCol(line_geom[i], "singled_geom",
                         IF line_geom[i].geometry.kind = "MultiLineString"
                           THEN LineMerge(line_geom[i].geometry.lines)
                         ELSE line_geom[i].geometry)]
     IN line_geom' = SwapGeometry(singled, "geometry", "singled_geom")
  /\ pc' = "explode"
  /\ UNCHANGED <<err, bp, cut_geom, point_data, cut_res, slivers, sliver_max_area, crs_of, caller>>

\* lines 277-285: multi-lines that remain are exploded and appended
ExplodeMulti ==
  /\ pc = "explode"
  /\ LET isMulti == {i \in DOMAIN line_geom : line_geom[i].geometry.kind = "MultiLineString"}
         multis == FilterSeq(line_geom, isMulti)
     IN line_geom' = IF Len(multis) > 0
                       THEN FilterSeq(line_geom, (DOMAIN line_geom) \ isMulti)
                              \o ExplodeRows(multis)
                     ELSE line_geom
  /\ pc' = "seg_index"
  /\ UNCHANGED <<err, bp, cut_geom, point_data, cut_res, slivers, sliver_max_area, crs_of, caller>>

\* lines 287-291: the segment identifiers
AssignSegIndex ==
  /\ pc = "seg_index"
  /\ line_geom' = NumberRows(line_geom, "seg_index")
  /\ crs_of' = [crs_of EXCEPT !.line = reproject(crs_of.line, proj_crs),
                              !.bp = reproject(crs_of.bp, proj_crs)]
  /\ caller' = [caller EXCEPT !.bld_poly = Held(bp, reproject(crs_of.bp, proj_crs))]
  /\ pc' = "link"
  /\ UNCHANGED <<err, bp, cut_geom, point_data, cut_res, slivers, sliver_max_area>>

\* line 293: linking
Link ==
  /\ pc = "link"
  /\ bp' = FindIntersects(bp, line_geom, "bp_index", "seg_index")
  \* FindIntersects adds line_ints to its argument and returns it
  /\ caller' = [caller EXCEPT !.bld_poly = Held(bp', crs_of.bp)]
  /\ pc' = "cut"
  /\ UNCHANGED <<err, cut_geom, point_data, line_geom, cut_res, slivers,
                 sliver_max_area, crs_of>>

\* line 298: the cut of one building, in whatever order the apply runs them
CutOne(i) ==
  /\ pc = "cut"
  /\ i \in (DOMAIN bp) \ (DOMAIN cut_res)
  /\ cut_res' = [k \in (DOMAIN cut_res) \cup {i} |->
                   IF k = i
                     THEN CutPolygon(bp[i].line_ints, bp[i].geometry,
                            [j \in DOMAIN line_geom |->
                               [seg_index |-> line_geom[j].seg_index,
                                geometry |-> line_geom[j].geometry]],
                            "seg_index")
                   ELSE cut_res[k]]
  /\ UNCHANGED <<pc, err, bp, cut_geom, point_data, line_geom, slivers,
                 sliver_max_area, crs_of, caller>>

\* lines 300-306: the results replace the geometries and are exploded into
\* one row per fragment
Assemble ==
  /\ pc = "cut"
  /\ DOMAIN cut_res = DOMAIN bp
  /\ bp' = LET cutRows == [i \in DOMAIN bp |-> WithCol(bp[i], "geometry", cut_res[i])]
               exploded == IndexParts(ExplodeRows(cutRows))
           IN [i \in DOMAIN exploded |-> DropCols(exploded[i], {"line_ints"})]
  /\ crs_of' = [crs_of EXCEPT !.line = reproject(crs_of.line, proj_crs),
                              !.bp = reproject(crs_of.bp, proj_crs)]
  \* line 300 assigns to the object self.bp names; explode (line 301) is the
  \* first step that gives self.bp an object of its own
  /\ caller' = [caller EXCEPT !.bld_poly =
                  Held([i \in DOMAIN bp |-> WithCol(bp[i], "geometry", cut_res[i])],
                       crs_of.bp)]
  /\ pc' = "sliver"
  /\ UNCHANGED <<err, cut_geom, point_data, line_geom, cut_res, slivers, sliver_max_area>>

\* lines 308-312: the sliver step
SliverFilter ==
  /\ pc = "sliver"
  /\ LET withArea == [i \in DOMAIN bp |->
                        WithCol(bp[i], "split_area", Round2(Area(bp[i].geometry)))]
     IN /\ slivers' = FilterSeq(withArea,
                        {i \in DOMAIN withArea : withArea[i].split_area <= sliver_max_area})
        /\ bp' = FilterSeq(withArea,
                        {i \in DOMAIN withArea : withArea[i].split_area >= sliver_max_area})
  /\ pc' = "drop_temp"
  /\ UNCHANGED <<err, cut_geom, point_data, line_geom, cut_res, sliver_max_area, crs_of, caller>>

\* lines 314-316: the temporary fields are dropped
DropTemp ==
  /\ pc = "drop_temp"
  /\ bp' = [i \in DOMAIN bp |-> DropCols(bp[i], {"split_area", "bp_index"})]
  /\ line_geom' = [i \in DOMAIN line_geom |->
                     DropCols(line_geom[i], {"cut_index", "line_index", "seg_index"})]
  /\ pc' = "done"
  /\ UNCHANGED <<err, cut_geom, point_data, cut_res, slivers, sliver_max_area, crs_of, caller>>

Next ==
  \/ Ingest
  \/ FilterCuts
  \/ CheckGeomKeyError
  \/ CheckGeomIOError
  \/ CheckGeomExit
  \/ CheckGeomNone
  \/ CheckGeom
  \/ DropLines
  \/ Project
  \/ DedupStep
  \/ ExcludeNonLines
  \/ MergeMulti
  \/ ExplodeMulti
  \/ AssignSegIndex
  \/ Link
  \/ \E i \in 1..Len(bp) : CutOne(i)
  \/ Assemble
  \/ SliverFilter
  \/ DropTemp

Spec == Init /\ [][Next]_vars

\* ------------------------------------------------------------ properties
\* the fragments cut from building i (the parts of its cut result)
Fragments(i) == Parts(cut_res[i])

\* fragment g of building i is a row of the output / of the sliver collection
InOutput(i, g) == \E r \in DOMAIN bp : bp[r].bp_index = i /\ bp[r].geometry = g
InSlivers(i, g) == \E r \in DOMAIN slivers : slivers[r].bp_index = i /\ slivers[r].geometry = g

\* C1 (as claimed): after the sliver step every fragment is in exactly one of
\* the output collection and the sliver collection.
C1_PartitionCompleteness ==
  pc = "drop_temp" =>
    \A i \in DOMAIN cut_res : \A k \in DOMAIN Fragments(i) :
      LET g == Fragments(i)[k]
      IN (InOutput(i, g) \/ InSlivers(i, g)) /\ ~(InOutput(i, g) /\ InSlivers(i, g))

\* C2 (as claimed): a fragment is a sliver iff its rounded area is strictly
\* below sliver_max_area, and is in the output iff it is at or above it.
C2_SliverRouting ==
  pc = "drop_temp" =>
    \A i \in DOMAIN cut_res : \A k \in DOMAIN Fragments(i) :
      LET g == Fragments(i)[k]
      IN /\ InSlivers(i, g) <=> Round2(Area(g)) < sliver_max_area
         /\ InOutput(i, g) <=> Round2(Area(g)) >= sliver_max_area

\* C3 (as claimed): the areas of the fragments cut from a building sum to the
\* area of the building.
C3_AreaConservation ==
  pc = "cut" =>
    \A i \in DOMAIN cut_res :
      SumSeq([k \in DOMAIN Fragments(i) |-> Area(Fragments(i)[k])]) = Area(bp[i].geometry)

\* C4: any two distinct fragments cut from one building share no area.
C4_NonOverlap ==
  pc = "cut" =>
    \A i \in DOMAIN cut_res : \A k, l \in DOMAIN Fragments(i) :
      k # l => GeomCells(Fragments(i)[k]) \cap GeomCells(Fragments(i)[l]) = {}

C4_Witness ==
  /\ pc = "cut"
  /\ \E i \in DOMAIN cut_res : Len(bp[i].line_ints) >= 2 /\ Len(Fragments(i)) >= 3

\* C5: a building with no linked segment is returned by CutPolygon as it is.
C5_Identity ==
  pc = "cut" =>
    \A i \in DOMAIN cut_res : Len(bp[i].line_ints) = 0 => cut_res[i] = bp[i].geometry

C5_Witness ==
  /\ pc = "cut"
  /\ Len(line_geom) > 0
  /\ \E i \in DOMAIN cut_res : Len(bp[i].line_ints) = 0

\* C6 (as claimed): every segment of the line network has exactly two
\* vertices once seg_index is assigned.
C6_SegmentAtomicity ==
  pc \in {"link", "cut"} =>
    \A i \in DOMAIN line_geom : NumVertices(line_geom[i].geometry) = 2

\* C7: duplicate removal applied to the result of duplicate removal removes
\* nothing more.
C7_DedupIdempotent == pc = "exclude" => Dedup(line_geom) = line_geom

\* the step has dropped a row: the labels given before it have a gap
C7_Witness ==
  /\ pc = "exclude"
  /\ \E i \in DOMAIN line_geom : line_geom[i].idx # i - 1

\* C8: the step leaves no two segments with equal centroids, and every centroid
\* present before it is carried afterwards by exactly one segment, the first
\* that had it.
FirstWith(rows, c) ==
  rows[CHOOSE i \in DOMAIN rows :
         /\ Centroid(rows[i].geometry) = c
         /\ \A j \in 1..i - 1 : Centroid(rows[j].geometry) # c]

C8_DedupInvariant ==
  [][pc = "dedup" =>
       /\ \A i, j \in DOMAIN line_geom' :
            i # j => Centroid(line_geom'[i].geometry) # Centroid(line_geom'[j].geometry)
       /\ \A i \in DOMAIN line_geom :
            LET c == Centroid(line_geom[i].geometry)
                carriers == {j \in DOMAIN line_geom' : Centroid(line_geom'[j].geometry) = c}
            IN /\ Cardinality(carriers) = 1
               /\ \A j \in carriers : line_geom'[j] = FirstWith(line_geom, c)]_vars

C8_Witness ==
  /\ pc = "exclude"
  /\ Len(line_geom) >= 2
  /\ \E i \in DOMAIN line_geom : line_geom[i].idx > i - 1

\* C9: from the assignment of seg_index until the cut, the identifiers are
\* exactly 1..N, one per segment, and the line network does not change.
C9_DenseSegIndex ==
  /\ [](pc \in {"link", "cut"} =>
          /\ {line_geom[i].seg_index : i \in DOMAIN line_geom} = 1..Len(line_geom)
          /\ \A i, j \in DOMAIN line_geom :
               line_geom[i].seg_index = line_geom[j].seg_index => i = j)
  /\ [][(pc \in {"link", "cut"}) => (line_geom' = line_geom)]_vars

C9_Witness ==
  /\ pc = "cut"
  /\ DOMAIN cut_res = DOMAIN bp
  /\ \E i \in DOMAIN line_geom : line_geom[i].seg_index # line_geom[i].line_index

\* C10: after linking, line_ints of a building holds a seg_index iff that
\* segment meets the building (touching counts), holds none twice, and is the
\* empty tuple when no segment meets it.
C10_LinkExact ==
  pc = "cut" =>
    \A b \in DOMAIN bp :
      LET ints == bp[b].line_ints
          meeting == {line_geom[s].seg_index : s \in
                        {t \in DOMAIN line_geom :
                           GeomPoints(line_geom[t].geometry) \cap GeomPoints(bp[b].geometry) # {}}}
      IN /\ SeqToSet(ints) = meeting
         /\ Cardinality(SeqToSet(ints)) = Len(ints)
         /\ meeting = {} => ints = <<>>

C10_Witness ==
  /\ pc = "cut"
  /\ \E a, b \in DOMAIN bp :
       /\ bp[a].line_ints = <<>>
       /\ Len(bp[b].line_ints) >= 1
       /\ Len(bp[b].line_ints) < Len(line_geom)

\* C11: a point or multipoint in the cut collection is an error of that record
\* alone: the run is not ended by the error raised for it
C11_PointRecordError ==
  (\E i \in DOMAIN cut_geom : cut_geom[i].geometry.kind \in PointKinds)
    => ~(pc = "raised" /\ err = "IOError")

\* C12: a failure while one record is cut into lines (a process exit inside
\* ToSingleLines) never ends the run
C12_FailureIsolation ==
  LET exploded == ExplodeRows(cut_geom)
  IN (\E i \in DOMAIN exploded : ToSingleLines(exploded[i].geometry).tag = "exit")
       => pc # "exited"

\* the kinds ToSingleLines knows (lines 75-76)
KnownKinds == PolygonKinds \cup LineKinds \cup PointKinds

\* C14: with a cut geometry of a kind outside the known ones, in the first
\* record or a later one, the run stops while the line network is built and
\* never gets to linking or cutting
C14_UnknownKindStops ==
  (\E i \in DOMAIN cut_geom : cut_geom[i].geometry.kind \notin KnownKinds)
    => pc \notin {"link", "cut", "sliver", "drop_temp", "done"}

\* row r of a collection carries the bp_index of the building it was cut from
CarriesBuilding(rows, r) ==
  /\ "bp_index" \in DOMAIN rows[r]
  /\ rows[r].bp_index \in DOMAIN cut_res
  /\ rows[r].geometry \in SeqToSet(Fragments(rows[r].bp_index))

\* C15: every fragment carries the bp_index of its building, and
\* both final collections still carry it while neither carries line_ints or
\* split_area.
C15_IdentityRetained ==
  /\ pc \in {"sliver", "drop_temp", "done"} => \A r \in DOMAIN bp : CarriesBuilding(bp, r)
  /\ pc \in {"drop_temp", "done"} => \A r \in DOMAIN slivers : CarriesBuilding(slivers, r)
  /\ pc = "done" =>
       /\ \A r \in DOMAIN bp : DOMAIN bp[r] \cap {"line_ints", "split_area"} = {}
       /\ \A r \in DOMAIN slivers : DOMAIN slivers[r] \cap {"line_ints", "split_area"} = {}

\* a cut geometry meets a building and, when points are given, a point
MeetsBuilding(g) == \E j \in DOMAIN bp : Intersects(g, bp[j].geometry)
MeetsPoint(g) ==
  point_data.given => \E k \in DOMAIN point_data.rows : Intersects(g, point_data.rows[k].geometry)

\* C16: the filter before the line network keeps, in order, exactly the cut
\* geometries that meet a building and (when points are given) a point, and
\* every record of the line network comes from a cut geometry that was kept.
C16_EarlyFilter ==
  /\ [](pc = "drop_lines" =>
          \A r \in DOMAIN line_geom :
             \E i \in DOMAIN cut_geom :
                /\ cut_geom[i].cut_index = line_geom[r].cut_index
                /\ MeetsBuilding(cut_geom[i].geometry)
                /\ MeetsPoint(cut_geom[i].geometry))
  /\ [][(pc = "filter") =>
          (cut_geom' = FilterSeq(cut_geom,
                         {i \in DOMAIN cut_geom : /\ MeetsBuilding(cut_geom[i].geometry)
                                                  /\ MeetsPoint(cut_geom[i].geometry)}))]_vars

\* the filter has run with points given, dropped a record and kept a later one
C16_Witness ==
  /\ pc = "check_geom"
  /\ point_data.given
  /\ \E i \in DOMAIN cut_geom : cut_geom[i].cut_index # i

\* frame new holds the validated geometries of frame old: as many, in the same
\* order, all valid, the valid ones of old as they were
Validated(old, new) ==
  /\ Len(new) = Len(old)
  /\ \A i \in DOMAIN old :
        /\ new[i].idx = old[i].idx
        /\ IsValid(new[i].geometry)
        /\ IsValid(old[i].geometry) => new[i].geometry = old[i].geometry
        /\ ~IsValid(old[i].geometry) => GeomCells(new[i].geometry) = GeomCells(old[i].geometry)

\* C17: validation at ingestion returns one geometry per record in the same
\* order, every one valid, and a geometry that was valid is returned unchanged
\* (a repaired one covers the same area).
C17_ValidatePreserves ==
  [][(pc = "ingest") => (Validated(bp, bp') /\ Validated(cut_geom, cut_geom'))]_vars

\* ingestion has repaired the self-touching polygon beside a valid record
C17_Witness ==
  /\ pc = "filter"
  /\ Len(cut_geom) >= 2
  /\ \E i \in DOMAIN cut_geom : cut_geom[i].geometry = MakeValid(CutBowtie)
  /\ ~IsValid(CutBowtie)

\* C18: wherever two collections are joined both are in the same crs (the cut
\* geometry and the buildings at the filter, the cut geometry and the points
\* once the points were used, the lines and the buildings when the lines are
\* dropped and when they are linked), and the buildings are in the projected
\* crs when the fragment areas are computed.
C18_CrsConsistency ==
  /\ pc = "filter" => crs_of.cut = crs_of.bp /\ crs_of.cut # "unset"
  /\ (pc = "check_geom" /\ point_data.given) => crs_of.points = crs_of.cut
  /\ pc \in {"drop_lines", "link"} => crs_of.line = crs_of.bp /\ crs_of.line # "unset"
  /\ pc = "sliver" => crs_of.bp = proj_crs

\* the areas are about to be computed in a run with points, every join done
C18_Witness ==
  /\ pc = "sliver"
  /\ point_data.given
  /\ crs_of = [bp |-> proj_crs, cut |-> crs, points |-> crs, line |-> proj_crs]

\* a cell set that fills its bounding box (a convex footprint on the lattice)
IsRectangle(R) ==
  /\ R # {}
  /\ LET xs == {c[1] : c \in R}
         ys == {c[2] : c \in R}
     IN \A x \in xs, y \in ys : <<x, y>> \in R

\* the unit edges that run between two cells of R, and the lattice points
\* that lie strictly inside R
InnerEdges(R) ==
  {e \in UNION {{<<c, <<c[1] + 1, c[2]>>>>, <<c, <<c[1], c[2] + 1>>>>} : c \in R} :
     IF e[1][2] = e[2][2] THEN <<e[1][1], e[1][2] - 1>> \in R
     ELSE <<e[1][1] - 1, e[1][2]>> \in R}
StrictlyInside(p, R) ==
  {<<p[1] - 1, p[2] - 1>>, <<p[1], p[2] - 1>>, <<p[1] - 1, p[2]>>, <<p[1], p[2]>>} \subseteq R

\* the footprint R is met by exactly one segment of the line network, a
\* straight one that runs through R from boundary to boundary
SingleStraightCut(R) ==
  LET meets == {j \in DOMAIN line_geom : Intersects(line_geom[j].geometry, FacePolygon(R))}
  IN /\ IsRectangle(R)
     /\ Cardinality(meets) = 1
     /\ LET g == line_geom[CHOOSE j \in meets : TRUE].geometry
        IN /\ g.kind = "LineString"
           /\ Len(g.coords) = 2
           /\ CoordsEdges(g.coords) \cap InnerEdges(R) # {}
           /\ ~StrictlyInside(g.coords[1], R)
           /\ ~StrictlyInside(g.coords[2], R)

\* a convex building i crossed by one straight segment is cut into exactly
\* two fragments whose areas sum to its area
TwoFragments(i) ==
  /\ Len(Fragments(i)) = 2
  /\ Area(Fragments(i)[1]) + Area(Fragments(i)[2]) = Area(bp[i].geometry)
  /\ Area(Fragments(i)[1]) > 0 /\ Area(Fragments(i)[2]) > 0

\* C19 (as claimed): a convex building crossed from boundary to boundary by
\* one straight segment is cut into exactly two fragments whose areas sum to
\* its area, and both are in the output whenever sliver_max_area is smaller
\* than the area of both.
C19_BelowFragmentAreas ==
  /\ pc = "cut" =>
       \A i \in DOMAIN cut_res :
          SingleStraightCut(GeomCells(bp[i].geometry)) => TwoFragments(i)
  /\ pc = "drop_temp" =>
       \A i \in DOMAIN cut_res :
          (/\ SingleStraightCut(GeomCells(cut_res[i]))
           /\ \A k \in DOMAIN Fragments(i) : sliver_max_area < Area(Fragments(i)[k]))
            => \A k \in DOMAIN Fragments(i) : InOutput(i, Fragments(i)[k])

\* C19 (amended): a convex building crossed from boundary to boundary by one
\* straight segment is cut into exactly two fragments whose areas sum to its
\* area, and both are in the output (and not slivers) whenever sliver_max_area
\* is smaller than the area of both as rounded to two decimals.
C19_SingleStraightCut ==
  /\ pc = "cut" =>
       \A i \in DOMAIN cut_res :
          SingleStraightCut(GeomCells(bp[i].geometry))
            => /\ Len(Fragments(i)) = 2
               /\ Area(Fragments(i)[1]) + Area(Fragments(i)[2]) = Area(bp[i].geometry)
               /\ Area(Fragments(i)[1]) > 0 /\ Area(Fragments(i)[2]) > 0
  /\ pc = "drop_temp" =>
       \A i \in DOMAIN cut_res :
          (/\ SingleStraightCut(GeomCells(cut_res[i]))
           /\ \A k \in DOMAIN Fragments(i) : sliver_max_area < Round2(Area(Fragments(i)[k])))
            => \A k \in DOMAIN Fragments(i) :
                  /\ InOutput(i, Fragments(i)[k])
                  /\ ~InSlivers(i, Fragments(i)[k])

\* the two halves of a square cut through its middle are in the output, the
\* threshold below their rounded area
C19_Witness ==
  /\ pc = "drop_temp"
  /\ \E i \in DOMAIN cut_res :
        /\ SingleStraightCut(GeomCells(cut_res[i]))
        /\ Len(Fragments(i)) = 2
        /\ Area(Fragments(i)[1]) = Area(Fragments(i)[2])
        /\ sliver_max_area < Round2(Area(Fragments(i)[1]))
        /\ \A k \in DOMAIN Fragments(i) : InOutput(i, Fragments(i)[k])

\* no cut geometry of the (filtered) cut collection meets g
Uncut(g) == \A j \in DOMAIN cut_geom : ~Intersects(cut_geom[j].geometry, g)

\* C20: in any run, also one in which no cut geometry meets any building, a
\* building that no cut geometry meets is not lost to a failed lookup, yields
\* one fragment equal to its geometry, and that fragment is in the output
\* unless its area is below sliver_max_area, when it is a sliver.
C20_UncutBuilding ==
  /\ (pc = "raised" /\ err = "KeyError") => \A i \in DOMAIN bp : ~Uncut(bp[i].geometry)
  /\ pc = "cut" =>
       \A i \in DOMAIN cut_res : Uncut(bp[i].geometry) => cut_res[i] = bp[i].geometry
  /\ pc = "drop_temp" =>
       \A i \in DOMAIN cut_res :
          Uncut(cut_res[i])
            => /\ Len(Fragments(i)) = 1
               /\ Round2(Area(cut_res[i])) >= sliver_max_area => InOutput(i, cut_res[i])
               /\ Round2(Area(cut_res[i])) < sliver_max_area
                    => InSlivers(i, cut_res[i]) /\ ~InOutput(i, cut_res[i])

\* the rows of a collection come in ascending order of bp_index (so the rows
\* of one building are contiguous)
AscendingBuildings(rows) ==
  \A r, q \in DOMAIN rows : r < q => rows[r].bp_index <= rows[q].bp_index

\* C21: whatever order the buildings were cut in, the assembled fragments, and
\* the output and sliver collections taken from them, are in ascending order
\* of the bp_index of their building, the fragments of a building contiguous.
C21_OutputOrder ==
  /\ pc \in {"sliver", "drop_temp"} => AscendingBuildings(bp)
  /\ pc \in {"drop_temp", "done"} => AscendingBuildings(slivers)

\* fragments of three buildings are assembled, one building cut in several
C21_Witness ==
  /\ pc = "sliver"
  /\ Cardinality({bp[r].bp_index : r \in DOMAIN bp}) = 3
  /\ \E r, q \in DOMAIN bp : r # q /\ bp[r].bp_index = 1 /\ bp[q].bp_index = 1

\* C22: when seg_index is assigned, and from then on, every record of the
\* line network is a single linestring (nothing but lines is left, and a
\* multi-line that did not merge into one line is one record per part).
C22_SinglePartLines ==
  pc \in {"seg_index", "link", "cut", "sliver", "drop_temp", "done"} =>
    \A r \in DOMAIN line_geom :
       /\ line_geom[r].geometry.kind = "LineString"
       /\ Len(line_geom[r].geometry.coords) >= 2

\* seg_index is about to be assigned to a network in which two records are
\* the parts of one multi-line and another record is a merged multi-line
C22_Witness ==
  /\ pc = "seg_index"
  /\ \E r, q \in DOMAIN line_geom :
        r # q /\ line_geom[r].line_index = line_geom[q].line_index
  /\ \E r \in DOMAIN line_geom :
        /\ cut_geom[CHOOSE i \in DOMAIN cut_geom :
                     cut_geom[i].cut_index = line_geom[r].cut_index].geometry.kind
             = "MultiLineString"
        /\ \A q \in DOMAIN line_geom :
              q # r => line_geom[q].line_index # line_geom[r].line_index

\* the cut of building i worked out from its own geometry and from the
\* segments named in its own line_ints, nothing else
OwnCut(i) ==
  LET own == {j \in DOMAIN line_geom : line_geom[j].seg_index \in SeqToSet(bp[i].line_ints)}
      edges == UNION {GeomEdges(line_geom[j].geometry) : j \in own}
  IN IF bp[i].line_ints = <<>> THEN bp[i].geometry
     ELSE MultiPolygon(Polygonize(edges \cup GeomEdges(Boundary(bp[i].geometry))))

\* C23: in the cutting phase every building has its line_ints before the
\* first cut, the result of a building is what its own geometry and its own
\* linked segments give, and while buildings are cut the segment catalog,
\* the buildings and the results already there do not change.
C23_ReadOnlyCut ==
  /\ [](pc = "cut" =>
          /\ \A i \in DOMAIN bp : "line_ints" \in DOMAIN bp[i]
          /\ \A i \in DOMAIN cut_res : cut_res[i] = OwnCut(i))
  /\ [][(pc = "cut" /\ pc' = "cut") =>
          (/\ line_geom' = line_geom
           /\ bp' = bp
           /\ \A k \in DOMAIN cut_res : k \in DOMAIN cut_res' /\ cut_res'[k] = cut_res[k])]_vars

\* all buildings of a batch are cut, two of them linked to different
\* segments, one of them split
C23_Witness ==
  /\ pc = "cut"
  /\ DOMAIN cut_res = DOMAIN bp
  /\ \E a, b \in DOMAIN bp :
        /\ bp[a].line_ints # <<>>
        /\ bp[b].line_ints # <<>>
        /\ SeqToSet(bp[a].line_ints) \cap SeqToSet(bp[b].line_ints) = {}
        /\ Len(Fragments(a)) >= 2

\* C24: constructing the cutter leaves the caller's bld_poly, cut_geom and
\* point_data as they were: no step changes their crs, their geometries or
\* their columns.
C24_InputsUnchanged == [][caller' = caller]_vars

\* segment r of the line network is named in the line_ints of a building
Linked(r) ==
  \E i \in DOMAIN bp : line_geom[r].seg_index \in SeqToSet(bp[i].line_ints)

\* C25: after linking every seg_index of the catalog is in the
\* line_ints of at least one building.
C25_EverySegmentLinked ==
  pc = "cut" => \A r \in DOMAIN line_geom : Linked(r)

\* two-vertex segments: the set of the two ends, and twice the midpoint
TwoVertex(g) == g.kind = "LineString" /\ Len(g.coords) = 2
EndSet(g) == {g.coords[1], g.coords[2]}
MidSum(g) == <<g.coords[1][1] + g.coords[2][1], g.coords[1][2] + g.coords[2][2]>>

\* C26 (as claimed): duplicate removal on a network of two-vertex segments
\* removes a segment only if a segment that stays has the same two ends.
C26_DedupByEndpoints ==
  [][(pc = "dedup" /\ \A i \in DOMAIN line_geom : TwoVertex(line_geom[i].geometry)) =>
       (\A i \in DOMAIN line_geom :
          (\A k \in DOMAIN line_geom' : line_geom'[k] # line_geom[i])
            => \E k \in DOMAIN line_geom' :
                 EndSet(line_geom'[k].geometry) = EndSet(line_geom[i].geometry))]_vars

\* C26 (amended): duplicate removal on a network of two-vertex segments
\* removes a segment exactly when an earlier segment has the same midpoint,
\* be it the same segment (in either direction) or a different one.
C26_DedupByMidpoint ==
  [][(pc = "dedup" /\ \A i \in DOMAIN line_geom : TwoVertex(line_geom[i].geometry)) =>
       (\A i \in DOMAIN line_geom :
          (\A k \in DOMAIN line_geom' : line_geom'[k] # line_geom[i])
            <=> \E j \in 1..i - 1 :
                  MidSum(line_geom[j].geometry) = MidSum(line_geom[i].geometry))]_vars

\* duplicate removal has taken out a cut line that crosses a segment that
\* stayed at their common midpoint
C26_Witness ==
  /\ pc = "exclude"
  /\ \E c \in DOMAIN cut_geom :
        /\ TwoVertex(cut_geom[c].geometry)
        /\ \A r \in DOMAIN line_geom : line_geom[r].cut_index # cut_geom[c].cut_index
        /\ \E r \in DOMAIN line_geom :
              /\ TwoVertex(line_geom[r].geometry)
              /\ MidSum(line_geom[r].geometry) = MidSum(cut_geom[c].geometry)
              /\ EndSet(line_geom[r].geometry) # EndSet(cut_geom[c].geometry)

\* C27: check_geom completes on every filtered cut collection of lines and
\* polygons, whichever records the filters took out (the record labelled 0,
\* or all of them), and whatever the kind of the first record it leaves no
\* polygon record in the line network.
C27_UniformCheckGeom ==
  /\ (pc = "raised" /\ \A i \in DOMAIN cut_geom :
                         cut_geom[i].geometry.kind \in LineKinds \cup PolygonKinds)
       => err # "KeyError"
  /\ pc = "drop_lines" =>
       \A r \in DOMAIN line_geom : line_geom[r].geometry.kind \notin PolygonKinds

====
